---- MODULE Spec2Model ----
(***************************************************************************)
(* Model of arlo-lapse.py: one batch run of the script (construct the      *)
(* ArloLapse object from config.yaml, get_snapshots, purge_snapshots,      *)
(* make_lapse).  File names are modelled as sequences of one-character     *)
(* strings so that formatting (strftime), the purge regex, strptime, glob  *)
(* and sorted() are computed on the characters, as the code computes them. *)
(***************************************************************************)
EXTENDS Integers, Sequences, FiniteSets, TLC

(***************************************************************************)
(* Bounds of the model.                                                    *)
(***************************************************************************)
\* At most this many devices are reported by arlo.GetDevices('camera').
MaxDevices == 2
\* At most this many stills of earlier runs are on disk when the run starts.
MaxInitFiles == 2

(***************************************************************************)
(* Program constants (module level of arlo-lapse.py).                      *)
(***************************************************************************)
PURGE_DURATION_HOURS == 24
LAPSE_DURATION == 20
SNAPSHOT_PATH == <<".", "/", "r", "a", "w", "/">>
LAPSE_PATH == <<".", "/", "l", "a", "p", "s", "e", "/">>

(***************************************************************************)
(* Characters.  Ord gives the code points Python compares strings by.      *)
(***************************************************************************)
Digits == <<"0", "1", "2", "3", "4", "5", "6", "7", "8", "9">>
Letters == {"a", "b", "c", "e", "g", "i", "f", "j", "l", "p", "r", "s", "w", "z"}

IsDigit(ch) == ch \in {"0", "1", "2", "3", "4", "5", "6", "7", "8", "9"}
\* The class [a-zA-Z_] of the purge regex.
IsAlpha(ch) == ch \in Letters \/ ch = "_"

DigitVal(ch) ==
    CASE ch = "0" -> 0 [] ch = "1" -> 1 [] ch = "2" -> 2 [] ch = "3" -> 3 [] ch = "4" -> 4
      [] ch = "5" -> 5 [] ch = "6" -> 6 [] ch = "7" -> 7 [] ch = "8" -> 8 [] ch = "9" -> 9
DigitChar(n) == Digits[n + 1]

Ord(ch) ==
    CASE ch = " " -> 32
      [] ch = "." -> 46
      [] ch = "/" -> 47
      [] IsDigit(ch) -> 48 + DigitVal(ch)
      [] ch = "_" -> 95
      [] ch = "a" -> 97
      [] ch = "b" -> 98
      [] ch = "c" -> 99
      [] ch = "e" -> 101
      [] ch = "f" -> 102
      [] ch = "g" -> 103
      [] ch = "i" -> 105
      [] ch = "j" -> 106
      [] ch = "l" -> 108
      [] ch = "p" -> 112
      [] ch = "r" -> 114
      [] ch = "s" -> 115
      [] ch = "w" -> 119
      [] ch = "z" -> 122

(***************************************************************************)
(* String helpers.                                                         *)
(***************************************************************************)
ToSet(s) == {s[k] : k \in 1..Len(s)}

StartsWith(s, p) == Len(p) <= Len(s) /\ SubSeq(s, 1, Len(p)) = p

EndsWith(s, p) == Len(p) <= Len(s) /\ SubSeq(s, Len(s) - Len(p) + 1, Len(s)) = p

\* Python's str < str: by code point, a proper prefix first.
StrLess(a, b) ==
    LET n == IF Len(a) < Len(b) THEN Len(a) ELSE Len(b)
        diff == {k \in 1..n : a[k] # b[k]}
    IN IF diff = {} THEN Len(a) < Len(b)
       ELSE LET k == CHOOSE x \in diff : \A y \in diff : x <= y
            IN Ord(a[k]) < Ord(b[k])

\* str.replace(' ', '_')
ReplaceSpaces(s) == [k \in 1..Len(s) |-> IF s[k] = " " THEN "_" ELSE s[k]]

\* sorted(S) for a set of strings.
RECURSIVE Sorted(_)
Sorted(S) ==
    IF S = {} THEN <<>>
    ELSE LET m == CHOOSE x \in S : \A y \in S \ {x} : StrLess(x, y)
         IN <<m>> \o Sorted(S \ {m})

\* All lists holding each element of S once: the orders list(set) can give.
Orderings(S) ==
    {s \in [1..Cardinality(S) -> S] : \A x \in S : \E k \in 1..Cardinality(S) : s[k] = x}

(***************************************************************************)
(* datetime.  A datetime is <<Y, m, d, H, M, S>>; the clock is counted in  *)
(* seconds from 2026-01-01 00:00:00 and stays inside January 2026.         *)
(***************************************************************************)
SecondsPerHour == 60 * 60
SecondsPerDay == 24 * SecondsPerHour

\* The datetime of clock value t.
DateTimeOf(t) ==
    <<2026, 1, 1 + (t \div SecondsPerDay), (t % SecondsPerDay) \div SecondsPerHour,
      (t % SecondsPerHour) \div 60, t % 60>>

\* datetime < datetime
DateLess(a, b) ==
    \E k \in 1..6 : SubSeq(a, 1, k - 1) = SubSeq(b, 1, k - 1) /\ a[k] < b[k]

Pad2(n) == <<DigitChar(n \div 10), DigitChar(n % 10)>>
Pad4(n) == Pad2(n \div 100) \o Pad2(n % 100)

\* now.strftime('%Y%m%d%H%M%S')
Strftime(dt) ==
    Pad4(dt[1]) \o Pad2(dt[2]) \o Pad2(dt[3]) \o Pad2(dt[4]) \o Pad2(dt[5]) \o Pad2(dt[6])

(***************************************************************************)
(* datetime.strptime(text, '%Y%m%d%H%M%S').  The format compiles to the    *)
(* regex \d\d\d\d (1[0-2]|0[1-9]|[1-9]) (3[0-1]|[1-2]\d|0[1-9]|[1-9])      *)
(* (2[0-3]|[0-1]\d|\d) ([0-5]\d|\d) (6[0-1]|[0-5]\d|\d): every field after *)
(* the year tries its two-digit alternatives before its one-digit one, the *)
(* first match in backtracking order is taken, and the call raises         *)
(* ValueError when nothing matches, when text remains after the match, or  *)
(* when the fields are no date.                                            *)
(***************************************************************************)
\* The number written by the width digits of ds from pos on.
NumAt(ds, pos, width) ==
    IF width = 1 THEN DigitVal(ds[pos])
    ELSE 10 * DigitVal(ds[pos]) + DigitVal(ds[pos + 1])

\* Whether the alternative of that width of field k accepts value v
\* (k = 1..5: month, day, hour, minute, second).
FieldAccepts(k, width, v) ==
    IF width = 2
    THEN CASE k = 1 -> v \in 1..12
           [] k = 2 -> v \in 1..31
           [] k = 3 -> v \in 0..23
           [] k = 4 -> v \in 0..59
           [] k = 5 -> v \in 0..61
    ELSE IF k \in {1, 2} THEN v \in 1..9 ELSE v \in 0..9

\* Field k can take that width at pos.
FieldFits(ds, k, pos, width) ==
    /\ pos + width - 1 <= Len(ds)
    /\ FieldAccepts(k, width, NumAt(ds, pos, width))

NoFields == [ok |-> FALSE, values |-> <<>>, end |-> 0]

\* The regex engine on fields k..5 from pos: the two-digit alternative and
\* all that can follow it are tried before the one-digit alternative.
RECURSIVE MatchFields(_, _, _)
MatchFields(ds, k, pos) ==
    IF k > 5 THEN [ok |-> TRUE, values |-> <<>>, end |-> pos - 1]
    ELSE LET two == IF FieldFits(ds, k, pos, 2) THEN MatchFields(ds, k + 1, pos + 2)
                    ELSE NoFields
         IN IF two.ok
            THEN [two EXCEPT !.values = <<NumAt(ds, pos, 2)>> \o two.values]
            ELSE LET one == IF FieldFits(ds, k, pos, 1)
                            THEN MatchFields(ds, k + 1, pos + 1)
                            ELSE NoFields
                 IN IF one.ok
                    THEN [one EXCEPT !.values = <<NumAt(ds, pos, 1)>> \o one.values]
                    ELSE NoFields

IsLeap(y) == (y % 4 = 0 /\ y % 100 # 0) \/ y % 400 = 0

DaysInMonth(y, m) ==
    IF m = 2 THEN (IF IsLeap(y) THEN 29 ELSE 28)
    ELSE IF m \in {4, 6, 9, 11} THEN 30 ELSE 31

\* The datetime constructor's range checks.
ValidDate(dt) ==
    /\ dt[1] >= 1
    /\ dt[3] <= DaysInMonth(dt[1], dt[2])
    /\ dt[6] <= 59

ParseFailure == [ok |-> FALSE, date |-> <<>>]

\* ds is a string of digits (group 2 of the purge regex).
Strptime(ds) ==
    IF Len(ds) < 4 THEN ParseFailure
    ELSE LET m == MatchFields(ds, 1, 5)
             dt == <<100 * NumAt(ds, 1, 2) + NumAt(ds, 3, 2)>> \o m.values
         IN IF ~m.ok \/ m.end # Len(ds) \/ ~ValidDate(dt) THEN ParseFailure
            ELSE [ok |-> TRUE, date |-> dt]

(***************************************************************************)
(* re.search(r'([a-zA-Z_]+)([0-9]+)', text).  Group 1 is a run of          *)
(* [a-zA-Z_] and group 2 must start right after it, so the leftmost match  *)
(* is the one whose group 2 starts at the first digit that directly        *)
(* follows a character of [a-zA-Z_]; group 2, being greedy, is the whole   *)
(* run of digits from there.                                               *)
(***************************************************************************)
\* Position k of text can start group 2.
Group2StartsAt(text, k) == IsDigit(text[k]) /\ IsAlpha(text[k - 1])

\* The last position of the run of digits that starts at position k.
RECURSIVE DigitRunEnd(_, _)
DigitRunEnd(text, k) ==
    IF k < Len(text) /\ IsDigit(text[k + 1]) THEN DigitRunEnd(text, k + 1) ELSE k

NoMatch == [matched |-> FALSE, group2 |-> <<>>]

RegexSearch(text) ==
    LET starts == {k \in 2..Len(text) : Group2StartsAt(text, k)}
    IN IF starts = {} THEN NoMatch
       ELSE LET k == CHOOSE x \in starts : \A y \in starts : x <= y
            IN [matched |-> TRUE, group2 |-> SubSeq(text, k, DigitRunEnd(text, k))]

(***************************************************************************)
(* File names and glob.                                                    *)
(***************************************************************************)
JpgSuffix == <<".", "j", "p", "g">>
GifSuffix == <<".", "g", "i", "f">>

\* snapshot_path + camera_name + '_' + now_str + '.jpg'
SnapshotFile(snapshot_path, camera_name, now_str) ==
    snapshot_path \o camera_name \o <<"_">> \o now_str \o JpgSuffix

\* path + camera_name + '.gif'
GifFile(path, camera_name) == path \o camera_name \o GifSuffix

\* glob.glob(snapshot_path + camera_name + '*.jpg') over the files on disk:
\* '*' matches any run of characters that holds no '/'.
Glob(disk, snapshot_path, camera_name) ==
    LET prefix == snapshot_path \o camera_name
    IN {f \in disk :
          /\ Len(prefix) + Len(JpgSuffix) <= Len(f)
          /\ StartsWith(f, prefix)
          /\ EndsWith(f, JpgSuffix)
          /\ \A k \in (Len(prefix) + 1)..(Len(f) - Len(JpgSuffix)) : f[k] # "/"}

(***************************************************************************)
(* Inputs of a run: config.yaml, the disk, the camera service, the clock.  *)
(***************************************************************************)
\* datetime.now() in get_snapshots: 2026-01-03 00:15:00.
AcquireClock == 2 * SecondsPerDay + 15 * 60

\* datetime.now() in purge_snapshots, a minute later: 2026-01-03 00:16:00.
PurgeClock == AcquireClock + 60

\* deviceName values the service reports.
DeviceNames ==
    { <<"c">>, <<"c", " ", "b">>, <<"c", "1">>,
      <<"e", "2", "0", "2", "6", "1", "1", "1", "1", "1">> }

\* arlo.GetDevices('camera'): the deviceName of each device, in order.
DeviceLists == UNION {[1..n -> DeviceNames] : n \in 0..MaxDevices}

\* camera_names lists a config.yaml may give.
ConfiguredLists ==
    { << <<"c">> >>, << <<"c", "_", "b">>, <<"z">> >> }

ConfigKeys ==
    {"username", "password", "camera_names", "lapse_path", "snapshot_path",
     "purge_duration_hours", "lapse_duration"}

\* The documents yaml.load may return: a mapping holding some of the keys.
ConfigDocuments ==
    {d \in [keys : SUBSET ConfigKeys, camera_names : ConfiguredLists \cup {<<>>},
            lapse_duration : {0, 5}] :
        /\ d.keys \subseteq {"username", "password", "camera_names", "lapse_duration"}
        /\ ("camera_names" \in d.keys) = (d.camera_names # <<>>)
        /\ ("lapse_duration" \in d.keys) = (d.lapse_duration # 0)}

\* cfg_yaml.get(key, default) for the keys whose value the model varies.
ConfigGet(doc, key, default) ==
    IF key \in doc.keys
    THEN (CASE key = "camera_names" -> doc.camera_names
            [] key = "lapse_duration" -> doc.lapse_duration)
    ELSE default

\* Times at which earlier runs took the stills found on disk: one second
\* before, exactly at, and well after the purge's now - 24 h.
EarlierClocks ==
    { PurgeClock - PURGE_DURATION_HOURS * SecondsPerHour - 1,
      PurgeClock - PURGE_DURATION_HOURS * SecondsPerHour,
      AcquireClock - 5 * 60 }

\* The stills earlier runs left: <<deviceName, clock>>.
EarlierShots ==
    ({<<"c">>} \X EarlierClocks)
      \cup { << <<"c", " ", "b">>, PurgeClock - PURGE_DURATION_HOURS * SecondsPerHour - 1 >>,
             << <<"c", "1">>, AcquireClock - 5 * 60 >> }

EarlierStills ==
    { SnapshotFile(SNAPSHOT_PATH, ReplaceSpaces(shot[1]), Strftime(DateTimeOf(shot[2]))) :
        shot \in EarlierShots }

\* The content of an animation written by an earlier run.
EarlierGif == [frames |-> <<>>, fps |-> <<1, 1>>, kind |-> "earlier"]

\* The animations found on disk: camera c's of an earlier run.
EarlierGifs ==
    [p \in {GifFile(SNAPSHOT_PATH, <<"c">>), GifFile(LAPSE_PATH, <<"c">>)} |-> EarlierGif]

(***************************************************************************)
(* State.                                                                  *)
(***************************************************************************)
VARIABLES
    pc,        \* position in __main__ and in the method it runs
    err,       \* the exception that ended the run, "" while there is none
    cfg_yaml,  \* the document loaded from config.yaml
    self,      \* the ArloLapse object's attributes
    files,     \* the .jpg files on disk
    gifs,      \* the .gif files on disk: path -> content
    cameras,   \* get_snapshots: the discovered deviceName list
    now,       \* datetime.now() of the running method, as a clock value
    now_str,   \* get_snapshots: now.strftime('%Y%m%d%H%M%S')
    i,         \* index of the running for loop over cameras
    todo,      \* purge_snapshots: files of the glob not yet visited
    log,       \* get_snapshots: the outcome of each snapshot request so far
    hist       \* history: the disk at the start of the run and of the purge

vars == <<pc, err, cfg_yaml, self, files, gifs, cameras, now, now_str, i, todo, log, hist>>

NoObject ==
    [username |-> "", password |-> "", camera_names |-> <<>>, lapse_path |-> <<>>,
     snapshot_path |-> <<>>, purge_duration_hours |-> 0, lapse_duration |-> 0]

Init ==
    /\ pc = "init"
    /\ err = ""
    /\ cfg_yaml \in ConfigDocuments
    /\ self = NoObject
    /\ files \in {F \in SUBSET EarlierStills : Cardinality(F) <= MaxInitFiles}
    /\ gifs = EarlierGifs
    /\ cameras = <<>>
    /\ now = 0
    /\ now_str = <<>>
    /\ i = 0
    /\ todo = {}
    /\ log = <<>>
    /\ hist = [files0 |-> files, gifs0 |-> gifs, purge0 |-> {}, aborted |-> FALSE,
               run |-> 1, interrupted |-> FALSE, first |-> {}]

(***************************************************************************)
(* ArloLapse.__init__                                                      *)
(***************************************************************************)
\* 'username' or 'password' is missing: ValueError, the script ends.
ConstructFails ==
    /\ pc = "init"
    /\ "username" \notin cfg_yaml.keys \/ "password" \notin cfg_yaml.keys
    /\ pc' = "crashed"
    /\ err' = "ValueError: config"
    /\ UNCHANGED <<cfg_yaml, self, files, gifs, cameras, now, now_str, i, todo, log, hist>>

\* A slip of lines 59-62: the password is read with a default and not
\* required.
ConstructWithoutPasswordCheck ==
    /\ pc = "init"
    /\ "username" \in cfg_yaml.keys
    /\ self' = [username |-> "user", password |-> "pass",
                camera_names |-> ConfigGet(cfg_yaml, "camera_names", <<>>),
                lapse_path |-> LAPSE_PATH,
                snapshot_path |-> SNAPSHOT_PATH,
                purge_duration_hours |-> PURGE_DURATION_HOURS,
                lapse_duration |-> ConfigGet(cfg_yaml, "lapse_duration", LAPSE_DURATION)]
    /\ pc' = "get_snapshots"
    /\ UNCHANGED <<err, cfg_yaml, files, gifs, cameras, now, now_str, i, todo, log, hist>>

Construct ==
    /\ pc = "init"
    /\ "username" \in cfg_yaml.keys
    /\ "password" \in cfg_yaml.keys
    /\ self' = [username |-> "user", password |-> "pass",
                camera_names |-> ConfigGet(cfg_yaml, "camera_names", <<>>),
                lapse_path |-> LAPSE_PATH,
                snapshot_path |-> SNAPSHOT_PATH,
                purge_duration_hours |-> PURGE_DURATION_HOURS,
                lapse_duration |-> ConfigGet(cfg_yaml, "lapse_duration", LAPSE_DURATION)]
    /\ pc' = "get_snapshots"
    /\ UNCHANGED <<err, cfg_yaml, files, gifs, cameras, now, now_str, i, todo, log, hist>>

(***************************************************************************)
(* ArloLapse.get_snapshots                                                 *)
(***************************************************************************)
\* camera['deviceName'].replace(' ', '_') for each discovered camera.
DiscoveredNames(devices) == [k \in 1..Len(devices) |-> ReplaceSpaces(devices[k])]

\* A slip of lines 111-116: the configured names are not checked to exist.
EffectiveCameraListsUnchecked(configured, discovered) ==
    IF configured = <<>> THEN {discovered} ELSE {configured}

\* The lists self.camera_names may be set to: the discovered names when none
\* is configured, else list(set(configured) & set(discovered)) in any order.
EffectiveCameraLists(configured, discovered) ==
    IF configured = <<>> THEN {discovered}
    ELSE Orderings(ToSet(configured) \cap ToSet(discovered))

\* Arlo(...) or GetDevices raises: caught by `except Exception`, printed.
LoginFails ==
    /\ pc = "get_snapshots"
    /\ pc' = "purge_snapshots"
    /\ hist' = [hist EXCEPT !.aborted = TRUE]
    /\ UNCHANGED <<err, cfg_yaml, self, files, gifs, cameras, now, now_str, i, todo, log>>

\* Login and enumeration succeed; self.camera_names is resolved.
ResolveCameras ==
    /\ pc = "get_snapshots"
    /\ \E devices \in DeviceLists :
          /\ cameras' = devices
          /\ \E names \in EffectiveCameraLists(self.camera_names, DiscoveredNames(devices)) :
                self' = [self EXCEPT !.camera_names = names]
    /\ now' = AcquireClock
    /\ now_str' = Strftime(DateTimeOf(AcquireClock))
    /\ i' = 1
    /\ pc' = "snapshot_loop"
    /\ UNCHANGED <<err, cfg_yaml, files, gifs, todo, log, hist>>

\* The camera the loop of lines 120-132 is at.
CameraName == ReplaceSpaces(cameras[i])

AtCamera == pc = "snapshot_loop" /\ i <= Len(cameras)

Selected == CameraName \in ToSet(self.camera_names)

NextCamera(outcome) ==
    /\ log' = Append(log, [camera |-> CameraName, outcome |-> outcome])
    /\ i' = i + 1

\* `if camera_name in self.camera_names` is false.
SnapshotSkip ==
    /\ AtCamera
    /\ ~Selected
    /\ i' = i + 1
    /\ UNCHANGED <<pc, err, cfg_yaml, self, files, gifs, cameras, now, now_str, todo, log, hist>>

\* A URL is returned and DownloadSnapshot writes the file.
SnapshotOk ==
    /\ AtCamera
    /\ Selected
    /\ files' = files \cup {SnapshotFile(self.snapshot_path, CameraName, now_str)}
    /\ NextCamera("ok")
    /\ UNCHANGED <<pc, err, cfg_yaml, self, gifs, cameras, now, now_str, todo, hist>>

\* A slip of lines 125-132: the timeout is not caught inside the loop, and
\* leaves it.
SnapshotTimeoutLeavesLoop ==
    /\ AtCamera
    /\ Selected
    /\ log' = Append(log, [camera |-> CameraName, outcome |-> "warning"])
    /\ pc' = "purge_snapshots"
    /\ UNCHANGED <<err, cfg_yaml, self, files, gifs, cameras, now, now_str, i, todo, hist>>

\* A slip of lines 131-132: the camera that timed out is taken off
\* self.camera_names.
SnapshotTimeoutDropsCamera ==
    /\ AtCamera
    /\ Selected
    /\ NextCamera("warning")
    /\ self' = [self EXCEPT !.camera_names =
                  SelectSeq(self.camera_names, LAMBDA name : name # CameraName)]
    /\ UNCHANGED <<pc, err, cfg_yaml, files, gifs, cameras, now, now_str, todo, hist>>

\* get_snapshot_url raises timeout_decorator.TimeoutError: a warning.
SnapshotTimeout ==
    /\ AtCamera
    /\ Selected
    /\ NextCamera("warning")
    /\ UNCHANGED <<pc, err, cfg_yaml, self, files, gifs, cameras, now, now_str, todo, hist>>

\* get_snapshot_url returns None: a warning.
SnapshotNone ==
    /\ AtCamera
    /\ Selected
    /\ NextCamera("warning")
    /\ UNCHANGED <<pc, err, cfg_yaml, self, files, gifs, cameras, now, now_str, todo, hist>>

\* Any other exception (basestations[0], the request, the download): caught
\* by the outer `except Exception`, printed; get_snapshots returns.
SnapshotError ==
    /\ AtCamera
    /\ Selected
    /\ log' = Append(log, [camera |-> CameraName, outcome |-> "error"])
    /\ pc' = "purge_snapshots"
    /\ hist' = [hist EXCEPT !.aborted = TRUE]
    /\ UNCHANGED <<err, cfg_yaml, self, files, gifs, cameras, now, now_str, i, todo>>

\* The loop is over.
SnapshotsDone ==
    /\ pc = "snapshot_loop"
    /\ i > Len(cameras)
    /\ pc' = "purge_snapshots"
    /\ UNCHANGED <<err, cfg_yaml, self, files, gifs, cameras, now, now_str, i, todo, log, hist>>

(***************************************************************************)
(* ArloLapse.purge_snapshots                                               *)
(***************************************************************************)
\* now - datetime.timedelta(hours=self.purge_duration_hours)
Threshold(clock, hours) == DateTimeOf(clock - hours * SecondsPerHour)

\* `date < now - timedelta(...)`: the file is to be removed.
Expired(date, clock, hours) == DateLess(date, Threshold(clock, hours))

\* Lines 144-145: get_snapshots has returned (its locals are gone) and the
\* clock is read.
PurgeBegin ==
    /\ pc = "purge_snapshots"
    /\ now' = PurgeClock
    /\ i' = 1
    /\ todo' = {}
    /\ pc' = "purge_camera"
    /\ hist' = [hist EXCEPT !.purge0 = files]
    /\ cameras' = <<>>
    /\ now_str' = <<>>
    /\ log' = <<>>
    /\ UNCHANGED <<err, cfg_yaml, self, files, gifs>>

\* Line 148: the glob of the next camera of self.camera_names.
PurgeCamera ==
    /\ pc = "purge_camera"
    /\ i <= Len(self.camera_names)
    /\ todo' = Glob(files, self.snapshot_path, self.camera_names[i])
    /\ pc' = "purge_file"
    /\ UNCHANGED <<err, cfg_yaml, self, files, gifs, cameras, now, now_str, i, log, hist>>

\* Lines 153-154 on one file: the regex, then strptime on its group 2.
ParsedDate(file) ==
    LET match == RegexSearch(file)
    IN IF match.matched THEN Strptime(match.group2) ELSE ParseFailure

\* The next file of the glob, which glob lists in any order: kept or removed.
PurgeFile ==
    /\ pc = "purge_file"
    /\ \E file \in todo :
          LET parsed == ParsedDate(file)
          IN /\ parsed.ok
             /\ files' = IF Expired(parsed.date, now, self.purge_duration_hours)
                         THEN files \ {file} ELSE files
             /\ todo' = todo \ {file}
    /\ UNCHANGED <<pc, err, cfg_yaml, self, gifs, cameras, now, now_str, i, log, hist>>

\* match is None (AttributeError) or strptime raises ValueError: nothing
\* catches it, the script ends.
PurgeRaises ==
    /\ pc = "purge_file"
    /\ \E file \in todo :
          /\ ~ParsedDate(file).ok
          /\ err' = IF RegexSearch(file).matched THEN "ValueError: strptime"
                    ELSE "AttributeError"
    /\ pc' = "crashed"
    /\ UNCHANGED <<cfg_yaml, self, files, gifs, cameras, now, now_str, i, todo, log, hist>>

\* The files of this camera are done.
PurgeNextCamera ==
    /\ pc = "purge_file"
    /\ todo = {}
    /\ i' = i + 1
    /\ pc' = "purge_camera"
    /\ UNCHANGED <<err, cfg_yaml, self, files, gifs, cameras, now, now_str, todo, log, hist>>

\* purge_snapshots returns.
PurgeDone ==
    /\ pc = "purge_camera"
    /\ i > Len(self.camera_names)
    /\ i' = 1
    /\ pc' = "make_lapse"
    /\ UNCHANGED <<err, cfg_yaml, self, files, gifs, cameras, now, now_str, todo, log, hist>>

(***************************************************************************)
(* ArloLapse.make_lapse                                                    *)
(***************************************************************************)
\* num_files/self.lapse_duration, kept as the pair <<dividend, divisor>>.
Fps(num_files, lapse_duration) == <<num_files, lapse_duration>>

\* imageio.mimwrite(output_file, images, fps=fps)
EncodedGif(frames, fps) == [frames |-> frames, fps |-> fps, kind |-> "encoded"]

\* What `gifsicle ... output_file > final_file` leaves in final_file: the
\* compressed animation, or the empty file the shell made when gifsicle fails.
CompressedGif(gif, ok) ==
    IF ok THEN [gif EXCEPT !.kind = "compressed"]
    ELSE [frames |-> <<>>, fps |-> <<0, 1>>, kind |-> "empty"]

WriteGif(disk, path, gif) ==
    [p \in DOMAIN disk \cup {path} |-> IF p = path THEN gif ELSE disk[p]]

AtLapseCamera == pc = "make_lapse" /\ i <= Len(self.camera_names)

\* files = sorted(glob.glob(self.snapshot_path + camera_name + '*.jpg'))
LapseFiles == Sorted(Glob(files, self.snapshot_path, self.camera_names[i]))

\* num_files is 0: nothing is done for this camera.
LapseSkip ==
    /\ AtLapseCamera
    /\ Len(LapseFiles) = 0
    /\ i' = i + 1
    /\ UNCHANGED <<pc, err, cfg_yaml, self, files, gifs, cameras, now, now_str, todo, log, hist>>

\* num_files > 0: the animation is encoded, then gifsicle is run on it.
LapseEncode ==
    /\ AtLapseCamera
    /\ Len(LapseFiles) > 0
    /\ \E ok \in BOOLEAN :
          LET gif == EncodedGif(LapseFiles, Fps(Len(LapseFiles), self.lapse_duration))
              output_file == GifFile(self.snapshot_path, self.camera_names[i])
              final_file == GifFile(self.lapse_path, self.camera_names[i])
          IN gifs' = WriteGif(WriteGif(gifs, output_file, gif), final_file,
                              CompressedGif(gif, ok))
    /\ i' = i + 1
    /\ UNCHANGED <<pc, err, cfg_yaml, self, files, cameras, now, now_str, todo, log, hist>>

\* make_lapse returns; 'Script complete.'
LapseDone ==
    /\ pc = "make_lapse"
    /\ i > Len(self.camera_names)
    /\ pc' = "done"
    /\ UNCHANGED <<err, cfg_yaml, self, files, gifs, cameras, now, now_str, i, todo, log, hist>>

(***************************************************************************)
(* One run of the script.                                                  *)
(***************************************************************************)
Next ==
    \/ ConstructFails
    \/ Construct
    \/ LoginFails
    \/ ResolveCameras
    \/ SnapshotSkip
    \/ SnapshotOk
    \/ SnapshotTimeout
    \/ SnapshotNone
    \/ SnapshotError
    \/ SnapshotsDone
    \/ PurgeBegin
    \/ PurgeCamera
    \/ PurgeFile
    \/ PurgeRaises
    \/ PurgeNextCamera
    \/ PurgeDone
    \/ LapseSkip
    \/ LapseEncode
    \/ LapseDone

Spec == Init /\ [][Next]_vars

(***************************************************************************)
(* Purge run again: the process is stopped inside purge_snapshots, or the  *)
(* purge has ended, and purge_snapshots is then run once more on the disk  *)
(* as it is, with no file added and the same `now`.                        *)
(***************************************************************************)
PurgeEnded ==
    \/ pc = "make_lapse" /\ i = 1
    \/ pc = "crashed" /\ err \in {"ValueError: strptime", "AttributeError"}

\* The process is stopped between two files of the purge.
PurgeInterrupt ==
    /\ pc = "purge_file"
    /\ hist.run = 1
    /\ pc' = "interrupted"
    /\ UNCHANGED <<err, cfg_yaml, self, files, gifs, cameras, now, now_str, i, todo, log, hist>>

\* purge_snapshots is called again.
PurgeAgain ==
    /\ hist.run = 1
    /\ pc = "interrupted" \/ PurgeEnded
    /\ hist' = [hist EXCEPT !.run = 2, !.interrupted = (pc = "interrupted"), !.first = files]
    /\ err' = ""
    /\ i' = 1
    /\ todo' = {}
    /\ pc' = "purge_camera"
    /\ UNCHANGED <<cfg_yaml, self, files, gifs, cameras, now, now_str, log>>

NextRerun == Next \/ PurgeInterrupt \/ PurgeAgain

SpecRerun == Init /\ [][NextRerun]_vars

(***************************************************************************)
(* Vocabulary of the properties.  A still of camera c is a file named      *)
(* <snapshot_path><c>_<14 digits>.jpg; its embedded timestamp is read off  *)
(* the fourteen digits by position.                                        *)
(***************************************************************************)
StampLen == Len(Strftime(DateTimeOf(0)))

IsStillOf(file, camera_name) ==
    LET head == SNAPSHOT_PATH \o camera_name \o <<"_">>
    IN /\ Len(file) = Len(head) + StampLen + Len(JpgSuffix)
       /\ StartsWith(file, head)
       /\ EndsWith(file, JpgSuffix)
       /\ \A k \in (Len(head) + 1)..(Len(head) + StampLen) : IsDigit(file[k])

OwnStills(camera_name, disk) == {f \in disk : IsStillOf(f, camera_name)}

EmbeddedStamp(file) ==
    SubSeq(file, Len(file) - Len(JpgSuffix) - StampLen + 1, Len(file) - Len(JpgSuffix))

EmbeddedDate(file) ==
    LET ds == EmbeddedStamp(file)
    IN <<100 * NumAt(ds, 1, 2) + NumAt(ds, 3, 2), NumAt(ds, 5, 2), NumAt(ds, 7, 2),
         NumAt(ds, 9, 2), NumAt(ds, 11, 2), NumAt(ds, 13, 2)>>

\* The names the service can report, as get_snapshots writes them.
ReportedNames == {ReplaceSpaces(d) : d \in DeviceNames}

Configured == ConfigGet(cfg_yaml, "camera_names", <<>>)

AfterPurge == pc \in {"make_lapse", "done"}

\* The cameras make_lapse has dealt with.
Assembled == IF pc = "done" THEN 1..Len(self.camera_names)
             ELSE IF pc = "make_lapse" THEN 1..(i - 1) ELSE {}

(***************************************************************************)
(* C1: once get_snapshots has resolved the cameras, the effective camera   *)
(* list holds exactly the names that are both configured and discovered    *)
(* (each once) when a list is configured, and exactly the discovered names *)
(* when none is.                                                           *)
(***************************************************************************)
C1_EffectiveCameraList ==
    pc = "snapshot_loop" =>
        LET discovered == {ReplaceSpaces(cameras[k]) : k \in 1..Len(cameras)}
        IN IF Configured # <<>>
           THEN /\ ToSet(self.camera_names) = ToSet(Configured) \cap discovered
                /\ Len(self.camera_names) = Cardinality(ToSet(self.camera_names))
           ELSE ToSet(self.camera_names) = discovered

\* A configured list of which one name is discovered and one is not, with a
\* second discovered camera that is not configured.
C1_Witness ==
    /\ pc = "snapshot_loop"
    /\ Len(Configured) = 2
    /\ Len(cameras) = 2
    /\ Len(self.camera_names) = 1
    /\ \E k \in 1..2 : ReplaceSpaces(cameras[k]) \notin ToSet(self.camera_names)

(***************************************************************************)
(* C2: after purge_snapshots has completed, every still of a camera of the *)
(* camera list that was on disk when the purge began is gone if its        *)
(* embedded timestamp is strictly before now - purge_duration_hours, and   *)
(* is still there otherwise.                                               *)
(***************************************************************************)
C2_PurgeByEmbeddedTimestamp ==
    AfterPurge =>
        \A k \in 1..Len(self.camera_names) :
            \A f \in OwnStills(self.camera_names[k], hist.purge0) :
                IF DateLess(EmbeddedDate(f), DateTimeOf(now - self.purge_duration_hours * SecondsPerHour))
                THEN f \notin files
                ELSE f \in files

(***************************************************************************)
(* C3: when purge_snapshots has been run a second time with no file added  *)
(* and the same threshold, the disk is as the first run left it; and when  *)
(* the first run was interrupted, the completed second run leaves what one *)
(* whole purge of the disk leaves.                                         *)
(***************************************************************************)
\* What one purge that visits every file leaves of disk.
WholePurge(disk) ==
    disk \ {f \in disk :
              /\ \E k \in 1..Len(self.camera_names) :
                    f \in Glob(disk, self.snapshot_path, self.camera_names[k])
              /\ ParsedDate(f).ok
              /\ DateLess(ParsedDate(f).date,
                          DateTimeOf(now - self.purge_duration_hours * SecondsPerHour))}

C3_PurgeConverges ==
    (hist.run = 2 /\ PurgeEnded) =>
        IF hist.interrupted
        THEN pc = "make_lapse" => files = WholePurge(hist.purge0)
        ELSE files = hist.first

(***************************************************************************)
(* C4: for every camera make_lapse has dealt with, if the camera has N > 0 *)
(* retained stills its animation was encoded at N / lapse_duration frames  *)
(* per second, and if it has none its intermediate and final files are as  *)
(* they were when the run started.                                         *)
(***************************************************************************)
SameFile(disk1, disk2, path) ==
    /\ (path \in DOMAIN disk1) = (path \in DOMAIN disk2)
    /\ path \in DOMAIN disk1 => disk1[path] = disk2[path]

C4_FrameRate ==
    \A k \in Assembled :
        LET camera_name == self.camera_names[k]
            own == OwnStills(camera_name, files)
            output_file == GifFile(self.snapshot_path, camera_name)
            final_file == GifFile(self.lapse_path, camera_name)
        IN IF own # {}
           THEN /\ output_file \in DOMAIN gifs
                /\ gifs[output_file].kind = "encoded"
                /\ gifs[output_file].fps[1] * self.lapse_duration
                     = Cardinality(own) * gifs[output_file].fps[2]
           ELSE /\ SameFile(gifs, hist.gifs0, output_file)
                /\ SameFile(gifs, hist.gifs0, final_file)

(***************************************************************************)
(* C5: while get_snapshots loops and when it has returned, the disk holds  *)
(* the files of the start plus one still for each request that succeeded,  *)
(* and nothing for a request that timed out or returned no URL; and unless *)
(* another exception ended the loop, every selected camera before the      *)
(* loop's position has been requested, whatever happened to those before   *)
(* it.                                                                     *)
(***************************************************************************)
RECURSIVE SelectedBefore(_)
SelectedBefore(n) ==
    IF n = 0 THEN <<>>
    ELSE IF ReplaceSpaces(cameras[n]) \in ToSet(self.camera_names)
         THEN Append(SelectedBefore(n - 1), ReplaceSpaces(cameras[n]))
         ELSE SelectedBefore(n - 1)

C5_WarningSkipsOneCamera ==
    pc \in {"snapshot_loop", "purge_snapshots"} =>
        /\ files = hist.files0 \cup
              {SnapshotFile(SNAPSHOT_PATH, log[k].camera, now_str) :
                 k \in {j \in 1..Len(log) : log[j].outcome = "ok"}}
        /\ ~hist.aborted => [k \in 1..Len(log) |-> log[k].camera] = SelectedBefore(i - 1)

\* A request that ended in a warning, then a later camera's still written.
C5_Witness ==
    /\ pc = "purge_snapshots"
    /\ ~hist.aborted
    /\ Len(log) = 2
    /\ log[1].outcome = "warning"
    /\ log[2].outcome = "ok"
    /\ log[1].camera # log[2].camera
    /\ SnapshotFile(SNAPSHOT_PATH, log[2].camera, now_str) \in files
    /\ SnapshotFile(SNAPSHOT_PATH, log[1].camera, now_str) \notin files

(***************************************************************************)
(* C6: once an exception other than a per-camera timeout has ended the     *)
(* acquisition, the run is never ended by an exception: it is in the purge *)
(* or in the assembly, or complete.                                        *)
(***************************************************************************)
C6_AcquisitionErrorContinues ==
    hist.aborted =>
        pc \in {"purge_snapshots", "purge_camera", "purge_file", "make_lapse", "done"}

(***************************************************************************)
(* C7: when config.yaml lacks username or password, the run is at its      *)
(* start or has ended with the configuration error; no object was built    *)
(* and the disk is as it was.                                              *)
(***************************************************************************)
C7_MissingCredentialsFail ==
    ("username" \notin cfg_yaml.keys \/ "password" \notin cfg_yaml.keys) =>
        /\ pc \in {"init", "crashed"}
        /\ pc = "crashed" => err = "ValueError: config"
        /\ self = NoObject
        /\ files = hist.files0
        /\ gifs = hist.gifs0

\* The run has ended on a document that has a username but no password,
\* with stills on disk.
C7_Witness ==
    /\ pc = "crashed"
    /\ err = "ValueError: config"
    /\ "username" \in cfg_yaml.keys
    /\ "password" \notin cfg_yaml.keys
    /\ files # {}

(***************************************************************************)
(* C8 as stated: after construction no step changes any attribute loaded   *)
(* from the configuration.                                                 *)
(***************************************************************************)
C8_ConfigurationImmutable == [][pc # "init" => self' = self]_vars

(***************************************************************************)
(* C8 as amended: after construction no step changes the credentials, the  *)
(* paths, the retention hours or the lapse duration, and the camera name   *)
(* list is changed only by get_snapshots, at the step that resolves the    *)
(* effective camera list.                                                  *)
(***************************************************************************)
C8_OnlyCameraListResolved ==
    [][pc # "init" =>
         /\ self' = [self EXCEPT !.camera_names = self'.camera_names]
         /\ self'.camera_names # self.camera_names =>
               pc = "get_snapshots" /\ pc' = "snapshot_loop"]_vars

\* get_snapshots has replaced the configured list by another one.
C8_Witness ==
    /\ pc = "snapshot_loop"
    /\ self.camera_names # Configured
    /\ self = [NoObject EXCEPT !.username = "user", !.password = "pass",
                 !.camera_names = self.camera_names,
                 !.lapse_path = LAPSE_PATH, !.snapshot_path = SNAPSHOT_PATH,
                 !.purge_duration_hours = PURGE_DURATION_HOURS,
                 !.lapse_duration = ConfigGet(cfg_yaml, "lapse_duration", LAPSE_DURATION)]

(***************************************************************************)
(* C9: every still this run's acquisition wrote and the disk still holds,  *)
(* whatever name the service reported for its camera, is parsed by the     *)
(* purge's timestamp extraction, to the timestamp embedded in its name.    *)
(***************************************************************************)
C9_WrittenStillsParse ==
    \A f \in files \ hist.files0 :
        \A camera_name \in ReportedNames :
            IsStillOf(f, camera_name) =>
                /\ ParsedDate(f).ok
                /\ ParsedDate(f).date = EmbeddedDate(f)

(***************************************************************************)
(* C10: the animation make_lapse encoded for a camera holds exactly that   *)
(* camera's own retained stills, in ascending order of embedded timestamp. *)
(***************************************************************************)
C10_OwnFramesInOrder ==
    \A k \in Assembled :
        LET camera_name == self.camera_names[k]
            own == OwnStills(camera_name, files)
            output_file == GifFile(self.snapshot_path, camera_name)
        IN (output_file \in DOMAIN gifs /\ gifs[output_file].kind = "encoded") =>
              LET frames == gifs[output_file].frames
              IN /\ ToSet(frames) = own
                 /\ Len(frames) = Cardinality(own)
                 /\ \A a, b \in 1..Len(frames) :
                       a < b => DateLess(EmbeddedDate(frames[a]), EmbeddedDate(frames[b]))

====
